---- MODULE Spec2Model ----
(***************************************************************************)
(* dim-cli: the DIMExplorer lookup-and-derive engine                       *)
(* (src/core/dim-explorer.js) and the `explorer` command that drives it    *)
(* (src/scripts/explorer.js).                                              *)
(*                                                                         *)
(* Strings are sequences of one-character strings, so that the regular     *)
(* expression of getCurrency and mosaicIdToName are computed, not assumed. *)
(* Amounts are JavaScript Numbers holding integers below 2^53; they are    *)
(* kept as little-endian sequences of base-4096 limbs without trailing     *)
(* zero limbs, so that Math.ceil(0.3 * L) can be computed with the IEEE    *)
(* 754 rounding the engine applies.                                        *)
(***************************************************************************)
EXTENDS Naturals, Integers, Sequences, FiniteSets, TLC

(***************************************************************************)
(* Bounds of the model.                                                    *)
(***************************************************************************)
MaxCalls == 2

(***************************************************************************)
(* Integer arithmetic on limb sequences (JavaScript Number integers).      *)
(***************************************************************************)
Base == 4096
LimbBits == 12

RECURSIVE Pow2(_)
Pow2(k) == IF k = 0 THEN 1 ELSE 2 * Pow2(k - 1)

RECURSIVE FromNat(_)
FromNat(n) == IF n = 0 THEN <<>> ELSE <<n % Base>> \o FromNat(n \div Base)

Limb(a, i) == IF i >= 1 /\ i <= Len(a) THEN a[i] ELSE 0

RECURSIVE Trim(_)
Trim(a) ==
    IF a = <<>> THEN <<>>
    ELSE IF a[Len(a)] = 0 THEN Trim(SubSeq(a, 1, Len(a) - 1))
    ELSE a

IsAmount(a) ==
    /\ a \in Seq(0..(Base - 1))
    /\ a = Trim(a)

RECURSIVE AddFrom(_, _, _, _)
AddFrom(a, b, i, carry) ==
    IF i > Len(a) /\ i > Len(b)
    THEN (IF carry = 0 THEN <<>> ELSE <<carry>>)
    ELSE LET s == Limb(a, i) + Limb(b, i) + carry
         IN  <<s % Base>> \o AddFrom(a, b, i + 1, s \div Base)

AddN(a, b) == Trim(AddFrom(a, b, 1, 0))

RECURSIVE ColSum(_, _, _, _)
ColSum(a, b, k, i) ==
    IF i > Len(a) THEN 0
    ELSE Limb(a, i) * Limb(b, k + 1 - i) + ColSum(a, b, k, i + 1)

RECURSIVE MulFrom(_, _, _, _)
MulFrom(a, b, k, carry) ==
    IF k > Len(a) + Len(b) THEN <<>>
    ELSE LET s == ColSum(a, b, k, 1) + carry
         IN  <<s % Base>> \o MulFrom(a, b, k + 1, s \div Base)

MulN(a, b) == Trim(MulFrom(a, b, 1, 0))

RECURSIVE LessFrom(_, _, _)
LessFrom(a, b, i) ==
    IF i = 0 THEN FALSE
    ELSE IF a[i] # b[i] THEN a[i] < b[i]
    ELSE LessFrom(a, b, i - 1)

LessN(a, b) ==
    IF Len(a) # Len(b) THEN Len(a) < Len(b) ELSE LessFrom(a, b, Len(a))

LeqN(a, b) == a = b \/ LessN(a, b)

RECURSIVE BitLenSmall(_)
BitLenSmall(n) == IF n = 0 THEN 0 ELSE 1 + BitLenSmall(n \div 2)

BitLen(a) ==
    IF a = <<>> THEN 0
    ELSE LimbBits * (Len(a) - 1) + BitLenSmall(a[Len(a)])

Bit(a, i) == (Limb(a, (i \div LimbBits) + 1) \div Pow2(i % LimbBits)) % 2

ShrN(a, s) ==
    LET drop == s \div LimbBits
        b    == s % LimbBits
    IN  IF drop >= Len(a) THEN <<>>
        ELSE Trim([i \in 1..(Len(a) - drop) |->
                      (Limb(a, i + drop) \div Pow2(b))
                    + (Limb(a, i + drop + 1) % Pow2(b)) * Pow2(LimbBits - b)])

LowBitsZero(a, s) ==
    /\ \A i \in 1..(s \div LimbBits) : Limb(a, i) = 0
    /\ Limb(a, (s \div LimbBits) + 1) % Pow2(s % LimbBits) = 0

Zero == <<>>
One == <<1>>

(***************************************************************************)
(* IEEE 754 binary64: the literal 0.3 is Mantissa03 / 2^Exp03, and a       *)
(* product is rounded to 53 significant bits, ties to even.                *)
(***************************************************************************)
MantissaBits == 53
Mantissa03 == <<819, 819, 819, 819, 19>>
Exp03 == 54

\* Math.ceil(0.3 * L) for an integer L < 2^53 (the product is exact in 106
\* bits, then rounded to the nearest double, then rounded up to an integer).
CeilOfThreeTenths(L) ==
    LET P     == MulN(L, Mantissa03)
        n     == BitLen(P)
        s     == IF n > MantissaBits THEN n - MantissaBits ELSE 0
        q     == ShrN(P, s)
        up    == /\ s > 0
                 /\ Bit(P, s - 1) = 1
                 /\ (~LowBitsZero(P, s - 1) \/ Bit(q, 0) = 1)
        m     == IF up THEN AddN(q, One) ELSE q
        t     == Exp03 - s
        whole == ShrN(m, t)
    IN  IF LowBitsZero(m, t) THEN whole ELSE AddN(whole, One)

(***************************************************************************)
(* Strings, the identifier pattern and the SDK's name formatting.          *)
(***************************************************************************)
Str_dim == <<"d", "i", "m">>
Str_nem == <<"n", "e", "m">>
Str_coin == <<"c", "o", "i", "n">>
Str_token == <<"t", "o", "k", "e", "n">>
Str_xem == <<"x", "e", "m">>

\* the literal "dim:coin" of getTotalAvailableLevyAmount
DimCoin == <<"d", "i", "m", ":", "c", "o", "i", "n">>
DimToken == <<"d", "i", "m", ":", "t", "o", "k", "e", "n">>
NemXem == <<"n", "e", "m", ":", "x", "e", "m">>
\* identifiers that are not two non-empty segments joined by ':'
NoSeparator == <<"d", "i", "m", "c", "o", "i", "n">>
EmptyMosaic == <<"d", "i", "m", ":">>

Identifiers == {DimCoin, DimToken, NemXem, NoSeparator, EmptyMosaic}

ColonsOf(s) == {i \in 1..Len(s) : s[i] = ":"}

\* index of the ':' the greedy first group of the pattern stops at, 0 if the
\* pattern does not match
LastColon(s) ==
    IF ColonsOf(s) = {} THEN 0
    ELSE CHOOSE i \in ColonsOf(s) : \A j \in ColonsOf(s) : j <= i

\* a format test that lets every string through
match_Anything(s) == TRUE

\* currency.match(pattern): truthy exactly when the string holds a ':'
match(s) == LastColon(s) # 0

\* currency.replace(pattern, "$1"): an unmatched string is returned as it is
replaceGroup1(s) ==
    IF LastColon(s) = 0 THEN s ELSE SubSeq(s, 1, LastColon(s) - 1)

\* currency.replace(pattern, "$2")
replaceGroup2(s) ==
    IF LastColon(s) = 0 THEN s ELSE SubSeq(s, LastColon(s) + 1, Len(s))

\* SDK utils.format.mosaicIdToName: namespaceId + ":" + name
mosaicIdToName(id) == id.namespaceId \o <<":">> \o id.name

\* the data model's AssetIdentifier: two non-empty segments joined by ':'
WellFormed(s) ==
    /\ Cardinality(ColonsOf(s)) = 1
    /\ LastColon(s) > 1
    /\ LastColon(s) < Len(s)

(***************************************************************************)
(* JavaScript values: every value carries its type.                        *)
(***************************************************************************)
Undefined == [type |-> "undefined"]
Null == [type |-> "null"]
Number(a) == [type |-> "number", v |-> a]
Object(o) == [type |-> "object", v |-> o]
TypeError == [type |-> "error", v |-> "TypeError"]
TransportErrors == {"timeout", "unreachable", "malformed payload"}
TransportError(e) == [type |-> "error", v |-> e]

IsTransportError(x) == x.type = "error" /\ x.v \in TransportErrors

\* what an async function does up to its next suspension
Throw(e) == [kind |-> "throw", value |-> e, store |-> <<>>]
Return(x) == [kind |-> "return", value |-> x, store |-> <<>>]
ReturnStoring(key, x) ==
    [kind |-> "return", value |-> Object(x), store |-> <<key, x>>]
Await(r) == [kind |-> "await", value |-> r, store |-> <<>>]

(***************************************************************************)
(* The node: the ledger's mosaic definitions and the balances of the levy  *)
(* recipient, fixed for one run.                                           *)
(***************************************************************************)
LevyRecipient == "NCGGLVO2G3CUACVI5GNX2KRBJSQCN4RDL2ZWJ4DP"
CoinCreator == "a1df5306355766bd2f9a64efdc089eb294be265987b3359093ae474c051d7d5a"

CoinSupply == <<0, 4008, 970, 3991, 31>>
TokenSupply == <<576, 244>>
\* 8000000000000007, an amount above 2^52
LargeQuantity == <<7, 832, 1318, 1727, 28>>

MosaicId(ns, name) == [namespaceId |-> ns, name |-> name]

RawCoin ==
    [id |-> MosaicId(Str_dim, Str_coin), totalSupply |-> CoinSupply,
     levy |-> Object([recipient |-> LevyRecipient])]
RawToken ==
    [id |-> MosaicId(Str_dim, Str_token), totalSupply |-> TokenSupply,
     levy |-> Undefined]
RawXem ==
    [id |-> MosaicId(Str_nem, Str_xem), totalSupply |-> CoinSupply,
     levy |-> Undefined]

\* dim:coin after a supply change on chain
RawCoinChanged == [RawCoin EXCEPT !.totalSupply = <<0, 4008, 970, 3991, 30>>]

Ledgers ==
    {<<RawXem>>, <<RawCoin, RawXem>>, <<RawToken, RawCoin, RawXem>>,
     <<RawCoinChanged>>}

Owned(id, q) == [mosaicId |-> id, quantity |-> q]

BalanceLists ==
    { Object(<<>>),
      Object(<<Owned(MosaicId(Str_dim, Str_coin), FromNat(1000000))>>),
      Object(<<Owned(MosaicId(Str_nem, Str_xem), FromNat(5)),
               Owned(MosaicId(Str_dim, Str_coin), FromNat(7))>>),
      Object(<<Owned(MosaicId(Str_dim, Str_coin), FromNat(10)),
               Owned(MosaicId(Str_dim, Str_coin), FromNat(7))>>),
      Object(<<Owned(MosaicId(Str_dim, Str_token), FromNat(3))>>),
      Object(<<Owned(MosaicId(Str_dim, Str_coin), LargeQuantity)>>),
      Undefined }

(***************************************************************************)
(* State.                                                                  *)
(***************************************************************************)
VARIABLES
    ledger,            \* the node: mosaic definitions on chain
    balances,          \* the node: owned mosaics of the levy recipient
    mosaicParameters,  \* this.parameters.mosaicParameters, the Registry cache
    call,              \* the Explorer query in progress
    requests,          \* node requests issued so far, with their status
    done,              \* completed Explorer queries, oldest first
    cli,               \* position of Command.run and its env
    out                \* what the command printed

vars == <<ledger, balances, mosaicParameters, call, requests, done, cli, out>>

(***************************************************************************)
(* DIMParameters (core/dim-parameters.js): the Registry.                   *)
(***************************************************************************)
\* translation of a raw on-chain definition into an AssetDefinition
fromMosaicDefinition(d) ==
    [identifier |-> mosaicIdToName(d.id),
     totalSupply |-> d.totalSupply,
     levy |-> d.levy]

\* the well-known primary asset, with its creator account
getCoin == [creator |-> CoinCreator]

NoEntries == [k \in {} |-> Null]
WellKnown == [k \in {DimCoin} |-> fromMosaicDefinition(RawCoin)]

\* the cache after construction: lazily populated, or holding the
\* well-known primary asset that getTotalAvailableLevyAmount reads directly
InitialRegistries == {NoEntries, WellKnown}

Stored(cache, key, params) ==
    [k \in (DOMAIN cache) \cup {key} |-> IF k = key THEN params ELSE cache[k]]

(***************************************************************************)
(* DIMExplorer.                                                            *)
(***************************************************************************)
\* this.mosaicParameters of the explorer: the constructor assigns only
\* this.parameters and this.api
thisMosaicParameters == Undefined

\* SDK model.address.toAddress(publicKey, networkId)
toAddress(publicKey, networkId) == <<"address", publicKey, networkId>>

MosaicDefinitionsRequest(ns) == [kind |-> "mosaicDefinitions", arg |-> ns]
OwnedRequest(address) == [kind |-> "owned", arg |-> <<address>>]

\* response.data || []
DataOrEmpty(response) ==
    IF response.data.type = "undefined" THEN <<>> ELSE response.data.v

Min(S) == CHOOSE x \in S : \A y \in S : x <= y

\* getCurrency without its cache check: every resolution fetches and stores
getCurrencyEnter_Refetch(currency) ==
    Await(MosaicDefinitionsRequest(replaceGroup1(currency)))

\* getCurrency that notes the namespace it is about to ask for in the cache
getCurrencyEnter_MarksNamespace(currency) ==
    ReturnStoring(replaceGroup1(currency),
                  [identifier |-> currency, totalSupply |-> Zero,
                   levy |-> Undefined])

\* getCurrency that caches an empty definition for the identifier it was
\* asked for
getCurrencyEnter_CachesUnknown(currency) ==
    ReturnStoring(currency,
                  [identifier |-> currency, totalSupply |-> Zero,
                   levy |-> Undefined])

\* getCurrency up to its await
getCurrencyEnter(currency) ==
    IF thisMosaicParameters.type = "undefined"
    THEN Throw(TypeError)
    ELSE IF currency \in DOMAIN thisMosaicParameters.v
    THEN Return(Object(thisMosaicParameters.v[currency]))
    ELSE Await(MosaicDefinitionsRequest(replaceGroup1(currency)))

\* getCurrency from its await on
getCurrencyResume(currency, response) ==
    IF ~response.ok THEN Throw(response.error)
    ELSE LET definitions == DataOrEmpty(response)
             hits == {d \in 1..Len(definitions) :
                         mosaicIdToName(definitions[d].id) = currency}
         IN  IF hits = {} THEN Return(Null)
             ELSE ReturnStoring(currency,
                                fromMosaicDefinition(definitions[Min(hits)]))

\* getTotalAvailableLevyAmount up to its await
getTotalAvailableLevyAmountEnter ==
    IF DimCoin \notin DOMAIN mosaicParameters
    THEN Throw(TypeError)
    ELSE IF mosaicParameters[DimCoin].levy.type = "undefined"
    THEN Throw(TypeError)
    ELSE Await(OwnedRequest(mosaicParameters[DimCoin].levy.v.recipient))

Max(S) == CHOOSE x \in S : \A y \in S : x >= y

\* getTotalAvailableLevyAmount whose scan keeps the last matching entry
getTotalAvailableLevyAmountResume_LastMatch(response) ==
    IF ~response.ok THEN Throw(response.error)
    ELSE LET mosaics == DataOrEmpty(response)
             hits == {b \in 1..Len(mosaics) :
                         mosaicIdToName(mosaics[b].mosaicId) = DimCoin}
         IN  IF hits = {} THEN Return(Number(Zero))
             ELSE Return(Number(mosaics[Max(hits)].quantity))

\* getTotalAvailableLevyAmount that catches a failed request and goes on
\* with no data
getTotalAvailableLevyAmountResume_Swallow(response) ==
    LET mosaics == IF response.ok THEN DataOrEmpty(response) ELSE <<>>
        hits == {b \in 1..Len(mosaics) :
                    mosaicIdToName(mosaics[b].mosaicId) = DimCoin}
    IN  IF hits = {} THEN Return(Number(Zero))
        ELSE Return(Number(mosaics[Min(hits)].quantity))

\* getTotalAvailableLevyAmount from its await on
getTotalAvailableLevyAmountResume(response) ==
    IF ~response.ok THEN Throw(response.error)
    ELSE LET mosaics == DataOrEmpty(response)
             hits == {b \in 1..Len(mosaics) :
                         mosaicIdToName(mosaics[b].mosaicId) = DimCoin}
         IN  IF hits = {} THEN Return(Number(Zero))
             ELSE Return(Number(mosaics[Min(hits)].quantity))

\* the rest of getTotalHoldersShareLevyAmount once the awaited
\* getTotalAvailableLevyAmount has settled
thirtyPercentLevyAmount(e) ==
    IF e.kind = "return"
    THEN Return(Number(CeilOfThreeTenths(e.value.v)))
    ELSE e

\* the rest of getTotalCirculatingSupply once the awaited getCurrency has
\* settled
totalSupplyOf(e) ==
    IF e.kind = "return"
    THEN [e EXCEPT !.value = IF e.value.type = "null"
                             THEN Number(Zero)
                             ELSE Number(e.value.v.totalSupply)]
    ELSE e

NetworkId == 104

Operations ==
    {"getCurrency", "getTotalAvailableLevyAmount",
     "getTotalHoldersShareLevyAmount", "getTotalCirculatingSupply"}

\* an Explorer query from its call to its first suspension
Enter(op, arg) ==
    CASE op = "getCurrency" -> getCurrencyEnter(arg)
      [] op = "getTotalAvailableLevyAmount" -> getTotalAvailableLevyAmountEnter
      [] op = "getTotalHoldersShareLevyAmount" ->
            thirtyPercentLevyAmount(getTotalAvailableLevyAmountEnter)
      [] op = "getTotalCirculatingSupply" ->
            LET creator == getCoin.creator
                address == toAddress(creator, NetworkId)
            IN  totalSupplyOf(getCurrencyEnter(arg))

\* an Explorer query from the settling of its node request on
Resume(op, arg, response) ==
    CASE op = "getCurrency" -> getCurrencyResume(arg, response)
      [] op = "getTotalAvailableLevyAmount" ->
            getTotalAvailableLevyAmountResume(response)
      [] op = "getTotalHoldersShareLevyAmount" ->
            thirtyPercentLevyAmount(getTotalAvailableLevyAmountResume(response))
      [] op = "getTotalCirculatingSupply" ->
            totalSupplyOf(getCurrencyResume(arg, response))

(***************************************************************************)
(* The node-query collaborator.                                            *)
(***************************************************************************)
\* what the node holds for a request
NodeData(request) ==
    IF request.kind = "mosaicDefinitions"
    THEN Object(SelectSeq(ledger, LAMBDA d : d.id.namespaceId = request.arg))
    ELSE IF request.arg = <<LevyRecipient>> THEN balances
    ELSE Object(<<>>)

\* a request is answered, or fails in transport
Responses(request) ==
    {[ok |-> TRUE, data |-> NodeData(request), error |-> Null]}
    \cup {[ok |-> FALSE, data |-> Undefined, error |-> TransportError(e)] :
             e \in TransportErrors}

(***************************************************************************)
(* Running an Explorer query: one step runs the async function up to its   *)
(* next await or to its completion.                                        *)
(***************************************************************************)
Idle == [pc |-> "idle", op |-> "-", arg |-> <<>>, first |-> 0,
         before |-> NoEntries]

Settle(op, arg, e, first, before, reqs) ==
    IF e.kind = "await"
    THEN /\ call' = [pc |-> "await", op |-> op, arg |-> arg,
                     first |-> first, before |-> before]
         /\ requests' = Append(reqs, [kind |-> e.value.kind,
                                      arg |-> e.value.arg,
                                      status |-> "pending"])
         /\ UNCHANGED <<mosaicParameters, done>>
    ELSE LET after == IF e.store = <<>> THEN mosaicParameters
                      ELSE Stored(mosaicParameters, e.store[1], e.store[2])
         IN  /\ call' = Idle
             /\ requests' = reqs
             /\ mosaicParameters' = after
             /\ done' = Append(done, [op |-> op, arg |-> arg,
                                      kind |-> e.kind, value |-> e.value,
                                      first |-> first,
                                      queries |-> Len(reqs) - first,
                                      before |-> before, after |-> after])

Invoke(op, arg) ==
    Settle(op, arg, Enter(op, arg), Len(requests), mosaicParameters, requests)

\* the pending node request settles and the awaiting query continues
nodeResponds ==
    /\ call.pc = "await"
    /\ cli.pc \notin {"exited", "rejected"}
    /\ \E response \in Responses(requests[Len(requests)]) :
          Settle(call.op, call.arg, Resume(call.op, call.arg, response),
                 call.first, call.before,
                 [requests EXCEPT ![Len(requests)].status =
                      IF response.ok THEN "ok" ELSE response.error.v])
    /\ UNCHANGED <<ledger, balances, cli, out>>

(***************************************************************************)
(* The Explorer called as a library.                                       *)
(***************************************************************************)
CanCall ==
    /\ cli.pc = "library"
    /\ call.pc = "idle"
    /\ Len(done) < MaxCalls

getCurrency(currency) ==
    /\ CanCall
    /\ Invoke("getCurrency", currency)
    /\ UNCHANGED <<ledger, balances, cli, out>>

getTotalAvailableLevyAmount ==
    /\ CanCall
    /\ Invoke("getTotalAvailableLevyAmount", <<>>)
    /\ UNCHANGED <<ledger, balances, cli, out>>

getTotalHoldersShareLevyAmount ==
    /\ CanCall
    /\ Invoke("getTotalHoldersShareLevyAmount", <<>>)
    /\ UNCHANGED <<ledger, balances, cli, out>>

getTotalCirculatingSupply(currency) ==
    /\ CanCall
    /\ Invoke("getTotalCirculatingSupply", currency)
    /\ UNCHANGED <<ledger, balances, cli, out>>

(***************************************************************************)
(* Command.run of the explorer command.                                    *)
(***************************************************************************)
Stages == <<"networkFee", "payoutFee", "totalSupply", "end">>

StageAfter(stage) ==
    CASE stage = "networkFee" -> "payoutFee"
      [] stage = "payoutFee" -> "totalSupply"
      [] stage = "totalSupply" -> "end"

StageOperation(stage) ==
    CASE stage = "networkFee" -> "getTotalAvailableLevyAmount"
      [] stage = "payoutFee" -> "getTotalHoldersShareLevyAmount"
      [] stage = "totalSupply" -> "getTotalCirculatingSupply"

\* whether the env asks for the query of a stage
Requested(env, stage) ==
    CASE stage = "networkFee" -> env.networkFee
      [] stage = "payoutFee" -> env.payoutFee
      [] stage = "totalSupply" -> env.totalSupply.type # "undefined"

Help == [kind |-> "help", stage |-> "-", value |-> Null]
Output(stage, value) == [kind |-> "result", stage |-> stage, value |-> value]

Envs ==
    [help : BOOLEAN, networkFee : BOOLEAN, payoutFee : BOOLEAN,
     totalSupply : {Undefined} \cup {[type |-> "string", v |-> c] :
                                        c \in Identifiers}]

NoEnv ==
    [help |-> FALSE, networkFee |-> FALSE, payoutFee |-> FALSE,
     totalSupply |-> Undefined]

\* run from its start to the construction of the explorer
runBegin ==
    /\ cli.pc = "run"
    /\ IF cli.env.help
       THEN /\ out' = Append(out, Help)
            /\ cli' = [cli EXCEPT !.pc = "exited"]
       ELSE /\ out' = out
            /\ cli' = [cli EXCEPT !.pc = "at", !.stage = "networkFee"]
    /\ UNCHANGED <<ledger, balances, mosaicParameters, call, requests, done>>

\* the three blocks without their await: the query is started and run goes
\* on to the next block
runQuery_NoAwait ==
    /\ cli.pc = "at"
    /\ cli.stage # "end"
    /\ IF ~Requested(cli.env, cli.stage)
       THEN /\ cli' = [cli EXCEPT !.stage = StageAfter(cli.stage)]
            /\ UNCHANGED <<mosaicParameters, call, requests, done, out>>
       ELSE IF cli.stage = "totalSupply" /\ ~match(cli.env.totalSupply.v)
       THEN /\ out' = Append(out, Help)
            /\ cli' = [cli EXCEPT !.pc = "exited"]
            /\ UNCHANGED <<mosaicParameters, call, requests, done>>
       ELSE /\ Invoke(StageOperation(cli.stage),
                      IF cli.stage = "totalSupply"
                      THEN cli.env.totalSupply.v ELSE <<>>)
            /\ cli' = [cli EXCEPT !.stage = StageAfter(cli.stage)]
            /\ out' = out
    /\ UNCHANGED <<ledger, balances>>

\* one of the three `if (env...)` blocks, up to its await
runQuery ==
    /\ cli.pc = "at"
    /\ cli.stage # "end"
    /\ IF ~Requested(cli.env, cli.stage)
       THEN /\ cli' = [cli EXCEPT !.stage = StageAfter(cli.stage)]
            /\ UNCHANGED <<mosaicParameters, call, requests, done, out>>
       ELSE IF cli.stage = "totalSupply" /\ ~match(cli.env.totalSupply.v)
       THEN /\ out' = Append(out, Help)
            /\ cli' = [cli EXCEPT !.pc = "exited"]
            /\ UNCHANGED <<mosaicParameters, call, requests, done>>
       ELSE /\ Invoke(StageOperation(cli.stage),
                      IF cli.stage = "totalSupply"
                      THEN cli.env.totalSupply.v ELSE <<>>)
            /\ cli' = [cli EXCEPT !.pc = "await"]
            /\ out' = out
    /\ UNCHANGED <<ledger, balances>>

\* the awaited query has settled: outputResponse, or run rejects
runOutput ==
    /\ cli.pc = "await"
    /\ call.pc = "idle"
    /\ LET last == done[Len(done)]
       IN  IF last.kind = "throw"
           THEN /\ cli' = [cli EXCEPT !.pc = "rejected"]
                /\ out' = out
           ELSE /\ cli' = [cli EXCEPT !.pc = "at",
                                      !.stage = StageAfter(cli.stage)]
                /\ out' = Append(out, Output(cli.stage, last.value))
    /\ UNCHANGED <<ledger, balances, mosaicParameters, call, requests, done>>

\* return this.end()
runEnd ==
    /\ cli.pc = "at"
    /\ cli.stage = "end"
    /\ cli' = [cli EXCEPT !.pc = "exited"]
    /\ UNCHANGED <<ledger, balances, mosaicParameters, call, requests, done,
                   out>>

(***************************************************************************)
(* Specification.                                                          *)
(***************************************************************************)
Init ==
    /\ ledger \in Ledgers
    /\ balances \in BalanceLists
    /\ mosaicParameters \in InitialRegistries
    /\ call = Idle
    /\ requests = <<>>
    /\ done = <<>>
    /\ cli \in {[pc |-> "library", stage |-> "-", env |-> NoEnv]}
               \cup {[pc |-> "run", stage |-> "-", env |-> e] : e \in Envs}
    /\ out = <<>>

Next ==
    \/ \E currency \in Identifiers : getCurrency(currency)
    \/ getTotalAvailableLevyAmount
    \/ getTotalHoldersShareLevyAmount
    \/ \E currency \in Identifiers : getTotalCirculatingSupply(currency)
    \/ nodeResponds
    \/ runBegin
    \/ runQuery
    \/ runOutput
    \/ runEnd

Spec == Init /\ [][Next]_vars

(***************************************************************************)
(* Vocabulary of the properties.                                           *)
(***************************************************************************)
Finished == 1..Len(done)

\* the node requests a completed query issued
RequestsOf(i) == (done[i].first + 1)..(done[i].first + done[i].queries)

NoneFailed(i) == \A r \in RequestsOf(i) : requests[r].status = "ok"

Resolving == {"getCurrency", "getTotalCirculatingSupply"}

\* the definitions on chain that carry an identifier
OnChain(identifier) ==
    {d \in 1..Len(ledger) : ledger[d].id.namespaceId = replaceGroup1(identifier)
                            /\ ledger[d].id.name = replaceGroup2(identifier)}

RECURSIVE SumQueries(_)
SumQueries(S) ==
    IF S = {} THEN 0
    ELSE LET i == CHOOSE x \in S : TRUE
         IN  done[i].queries + SumQueries(S \ {i})

\* C1 (as claimed): an identifier defined on chain that has been resolved
\* two or more times caused exactly one node query, and every resolution
\* returned the same definition.
C1_OneQueryPerIdentifier ==
    \A identifier \in Identifiers :
        LET R == {i \in Finished : done[i].op = "getCurrency"
                                   /\ done[i].arg = identifier}
        IN  (WellFormed(identifier) /\ OnChain(identifier) # {}
             /\ Cardinality(R) >= 2 /\ \A i \in R : NoneFailed(i))
            => /\ SumQueries(R) = 1
               /\ \A i, j \in R : /\ done[i].kind = "return"
                                  /\ done[i].value = done[j].value

\* C2: an entry of the Registry cache is never removed and never replaced.
C2_EntriesArePermanent ==
    [][\A k \in DOMAIN mosaicParameters :
          /\ k \in DOMAIN mosaicParameters'
          /\ mosaicParameters'[k] = mosaicParameters[k]]_vars

\* C2 witness: the cache holds a definition and Explorer queries, one of
\* them through the node, have completed after that.
C2_Witness ==
    /\ DimCoin \in DOMAIN mosaicParameters
    /\ Len(done) >= 2
    /\ \E i \in Finished : done[i].queries > 0
    /\ \E i \in Finished : done[i].op \in Resolving

\* the levy pool amount: the first dim:coin balance of the levy recipient
LevyPool ==
    LET list == IF balances.type = "undefined" THEN <<>> ELSE balances.v
        coins == {b \in 1..Len(list) :
                     list[b].mosaicId = MosaicId(Str_dim, Str_coin)}
    IN  IF coins = {} THEN Zero
        ELSE list[CHOOSE b \in coins : \A c \in coins : b <= c].quantity

Three == <<3>>
Ten == <<10>>

\* C3 (as claimed): the holders' share H of a levy pool L is the integer
\* with 10*H >= 3*L and 10*H < 3*L + 10.
C3_ShareIsCeiling ==
    \A i \in Finished :
        (done[i].op = "getTotalHoldersShareLevyAmount"
         /\ done[i].kind = "return")
        => LET H == done[i].value.v
               L == LevyPool
           IN  /\ LeqN(MulN(Three, L), MulN(Ten, H))
               /\ LessN(MulN(Ten, H), AddN(MulN(Three, L), Ten))

\* C4: getTotalAvailableLevyAmount returns the quantity of the first
\* dim:coin entry of the balance list the node returned, and 0 when there is
\* none.
C4_FirstCoinBalance ==
    \A i \in Finished :
        (done[i].op = "getTotalAvailableLevyAmount"
         /\ done[i].queries > 0 /\ NoneFailed(i))
        => /\ done[i].kind = "return"
           /\ done[i].value = Number(LevyPool)

\* C4 witness: the balance list starts with another asset and the query
\* returned the dim:coin quantity behind it.
C4_Witness ==
    \E i \in Finished :
        /\ done[i].op = "getTotalAvailableLevyAmount"
        /\ done[i].kind = "return"
        /\ balances.type = "object"
        /\ Len(balances.v) = 2
        /\ balances.v[1].mosaicId # MosaicId(Str_dim, Str_coin)
        /\ done[i].value = Number(balances.v[2].quantity)

\* C5 (as claimed): getTotalCirculatingSupply of a well-formed identifier
\* returns 0 when no definition on chain carries it, and the definition's
\* total supply otherwise.
C5_SupplyOrZero ==
    \A i \in Finished :
        (done[i].op = "getTotalCirculatingSupply"
         /\ WellFormed(done[i].arg) /\ NoneFailed(i))
        => /\ done[i].kind = "return"
           /\ done[i].value =
                 IF OnChain(done[i].arg) = {} THEN Number(Zero)
                 ELSE Number(ledger[Min(OnChain(done[i].arg))].totalSupply)

\* C6 (as claimed): a malformed identifier is rejected with no node query
\* issued before the rejection, and it is neither a cache key nor the
\* argument of a query in progress.
C6_RejectedBeforeAnyQuery ==
    /\ \A i \in Finished :
          (done[i].op \in Resolving /\ ~WellFormed(done[i].arg))
          => (done[i].kind = "throw" /\ done[i].queries = 0)
    /\ (call.pc = "await" /\ call.op \in Resolving) => WellFormed(call.arg)
    /\ \A k \in DOMAIN mosaicParameters : WellFormed(k)
    /\ (/\ cli.pc = "exited"
        /\ ~cli.env.help
        /\ cli.env.totalSupply.type = "string"
        /\ out # <<>>
        /\ out[Len(out)] = Help)
       => requests = <<>>

\* C7: a query one of whose node requests failed in transport throws that
\* failure; it returns neither 0 nor an empty definition.
C7_TransportFailurePropagates ==
    \A i \in Finished :
        \A r \in RequestsOf(i) :
            requests[r].status \in TransportErrors
            => /\ done[i].kind = "throw"
               /\ done[i].value = TransportError(requests[r].status)

\* C7 witness: the owned-balances request of a holders' share query timed
\* out and the query threw the timeout.
C7_Witness ==
    \E i \in Finished :
        /\ done[i].op = "getTotalHoldersShareLevyAmount"
        /\ done[i].queries = 1
        /\ requests[done[i].first + 1].status = "timeout"
        /\ done[i].kind = "throw"
        /\ done[i].value = TransportError("timeout")

Queries ==
    {"getTotalAvailableLevyAmount", "getTotalHoldersShareLevyAmount",
     "getTotalCirculatingSupply"}

\* C8 (as claimed): a query none of whose node requests failed completes
\* with a non-negative integer.
C8_NumberUnlessTransportFailure ==
    \A i \in Finished :
        (done[i].op \in Queries /\ NoneFailed(i))
        => /\ done[i].kind = "return"
           /\ done[i].value.type = "number"
           /\ IsAmount(done[i].value.v)

\* C9 (as claimed): resolving an identifier that is not cached and that no
\* definition of its namespace carries completes with the empty result and
\* leaves the cache as it was.
C9_NotFoundIsEmpty ==
    \A i \in Finished :
        (/\ done[i].op = "getCurrency"
         /\ WellFormed(done[i].arg)
         /\ done[i].arg \notin DOMAIN done[i].before
         /\ OnChain(done[i].arg) = {}
         /\ NoneFailed(i))
        => /\ done[i].kind = "return"
           /\ done[i].value = Null
           /\ done[i].after = done[i].before

\* C10 (as claimed): getTotalAvailableLevyAmount resolves dim:coin through
\* the cache-or-fetch path before it asks for the owned balances, so from a
\* cache without dim:coin it fetches the definition, stores it, and then
\* issues the owned-balances request.
C10_LevyResolvesFirst ==
    \A i \in Finished :
        (/\ done[i].op = "getTotalAvailableLevyAmount"
         /\ DimCoin \notin DOMAIN done[i].before
         /\ OnChain(DimCoin) # {}
         /\ NoneFailed(i))
        => /\ done[i].kind = "return"
           /\ done[i].queries = 2
           /\ requests[done[i].first + 1].kind = "mosaicDefinitions"
           /\ requests[done[i].first + 2].kind = "owned"
           /\ DimCoin \in DOMAIN done[i].after

InFlight == {r \in 1..Len(requests) : requests[r].status = "pending"}

StageIndex(stage) == CHOOSE k \in 1..Len(Stages) : Stages[k] = stage

\* the stages before a stage whose query the env asks for
RequestedBefore(env, stage) ==
    {k \in 1..(StageIndex(stage) - 1) : Requested(env, Stages[k])}

\* C11: in a run of the command at most one node request is in flight, and
\* while the request of a stage's query is in flight the queries of all
\* earlier requested stages have completed, in the order networkFee,
\* payoutFee, totalSupply, each with its result printed.
C11_OneRequestInFlight ==
    cli.pc # "library"
    => /\ Cardinality(InFlight) <= 1
       /\ InFlight # {}
          => /\ cli.pc = "await"
             /\ call.op = StageOperation(cli.stage)
             /\ Len(done) = Cardinality(RequestedBefore(cli.env, cli.stage))
             /\ Len(out) = Len(done)
             /\ \A k \in 1..Len(done) :
                   /\ out[k].kind = "result"
                   /\ StageIndex(out[k].stage)
                         \in RequestedBefore(cli.env, cli.stage)
                   /\ done[k].op = StageOperation(out[k].stage)
                   /\ done[k].kind = "return"
                   /\ out[k].value = done[k].value
                   /\ \A j \in 1..(k - 1) :
                         StageIndex(out[j].stage) < StageIndex(out[k].stage)

\* C11 witness: the owned-balances request of --payoutFee is in flight and
\* the result of --networkFee has been printed.
C11_Witness ==
    /\ cli.pc = "await"
    /\ cli.stage = "payoutFee"
    /\ Cardinality(InFlight) = 1
    /\ Len(out) = 1
    /\ out[1].stage = "networkFee"
    /\ out[1].kind = "result"

UnmatchedTotalSupply ==
    /\ cli.pc # "library"
    /\ ~cli.env.help
    /\ cli.env.totalSupply.type = "string"
    /\ ColonsOf(cli.env.totalSupply.v) = {}

AddedBy(i) == (DOMAIN done[i].after) \ (DOMAIN done[i].before)

RunOver == cli.pc \in {"exited", "rejected"}

\* the queries the run was asked for and accepted
Accepted(env) ==
    {k \in 1..3 : /\ Requested(env, Stages[k])
                  /\ Stages[k] = "totalSupply"
                     => ColonsOf(env.totalSupply.v) # {}}

\* C15 (as claimed): a run in which no node request failed ends by calling
\* end(), and when end() is called after the last block the result of
\* every requested, accepted query has been printed.
C15_RunCallsEnd ==
    /\ (RunOver /\ \A r \in 1..Len(requests) : requests[r].status = "ok")
       => cli.pc = "exited"
    /\ (cli.pc = "exited" /\ (out = <<>> \/ out[Len(out)] # Help))
       => \A k \in Accepted(cli.env) :
             \E j \in 1..Len(out) : /\ out[j].kind = "result"
                                    /\ out[j].stage = Stages[k]

====
